---- MODULE Spec2Model ----
(***************************************************************************)
(* hnsd daemon entry point (src/src/daemon.c): command-line parsing into   *)
(* hsk_options_t (parse_arg) and the start-up / tear-down sequence of      *)
(* main() over the event loop, the peer pool, the authoritative server     *)
(* (ns) and the recursive server (rs).                                     *)
(*                                                                         *)
(* C strings are sequences of one-character strings.  A command line is a  *)
(* sequence of option tokens [o |-> <option letter>, arg |-> <string>];    *)
(* "?" is what getopt_long reports for an unknown option or a missing      *)
(* argument and "pos" is a positional (non-option) argument.               *)
(***************************************************************************)
EXTENDS Integers, Sequences, FiniteSets, TLC

(***************************************************************************)
(* Bounds of the model.                                                    *)
(***************************************************************************)
\* Longest command line explored (number of arguments after argv[0]).
MaxArgs == 2
\* Collaborator return codes (open, uv_run) range over -MaxCode..MaxCode.
MaxCode == 1

(***************************************************************************)
(* Program constants.                                                      *)
(***************************************************************************)
HSK_SUCCESS == 0
HSK_ENOMEM == 1
HSK_EFAILURE == 3
HSK_NS_PORT == 5369
HSK_RS_PORT == 53
HSK_POOL_SIZE == 8
HSK_NS_IP == <<"127.0.0.1">>
HSK_RS_IP == <<"127.0.0.1">>
HSK_RS_A == <<"127.0.0.1">>
\* sizeof(opt->_identity_key), daemon.c:34, and the size tested at daemon.c:158
KeySize == 32
\* the upper limit of the pool size, daemon.c:152
PoolSizeMax == 1000
\* int32_t
IntMax == 2147483647
IntMin == -IntMax - 1
TwoTo15 == 32768
TwoTo16 == 65536

NULL == "NULL"

(***************************************************************************)
(* Strings.                                                                *)
(***************************************************************************)
Digits == {"0", "1", "2", "3", "4", "5", "6", "7", "8", "9"}
HexChars == Digits \cup {"a", "b", "c", "d", "e", "f", "A", "B", "C", "D", "E", "F"}

DigitVal(c) ==
  CASE c = "0" -> 0 [] c = "1" -> 1 [] c = "2" -> 2 [] c = "3" -> 3
    [] c = "4" -> 4 [] c = "5" -> 5 [] c = "6" -> 6 [] c = "7" -> 7
    [] c = "8" -> 8 [] c = "9" -> 9

HexVal(c) ==
  CASE c \in Digits -> DigitVal(c)
    [] c \in {"a", "A"} -> 10 [] c \in {"b", "B"} -> 11 [] c \in {"c", "C"} -> 12
    [] c \in {"d", "D"} -> 13 [] c \in {"e", "E"} -> 14 [] c \in {"f", "F"} -> 15

\* n copies of the string s, concatenated
RECURSIVE Rep(_, _)
Rep(s, n) == IF n = 0 THEN <<>> ELSE s \o Rep(s, n - 1)

\* the longest prefix of s made of decimal digits
RECURSIVE DigitPrefix(_)
DigitPrefix(s) ==
  IF s = <<>> \/ Head(s) \notin Digits THEN <<>>
  ELSE <<Head(s)>> \o DigitPrefix(Tail(s))

\* the number a string of decimal digits denotes (0 for the empty string)
RECURSIVE DecValue(_)
DecValue(s) ==
  IF s = <<>> THEN 0
  ELSE 10 * DecValue(SubSeq(s, 1, Len(s) - 1)) + DigitVal(s[Len(s)])

\* leading white space dropped, as isspace() does
RECURSIVE SkipSpace(_)
SkipSpace(s) ==
  IF s # <<>> /\ Head(s) = " " THEN SkipSpace(Tail(s)) ELSE s

\* TLC's integers are 32 bits wide, so a number that may be wider is kept
\* as two 16-bit limbs: its low 32 bits are hi * 2^16 + lo, and big says that the
\* number itself is 2^32 or more.
Acc0 == [hi |-> 0, lo |-> 0, big |-> FALSE]

\* acc * 10 + d
AccStep(acc, d) ==
  LET lo2 == acc.lo * 10 + d
      hi2 == acc.hi * 10 + (lo2 \div TwoTo16)
  IN [hi |-> hi2 % TwoTo16, lo |-> lo2 % TwoTo16, big |-> acc.big \/ hi2 >= TwoTo16]

\* the number a string of decimal digits denotes, in limbs
RECURSIVE DecAcc(_)
DecAcc(s) ==
  IF s = <<>> THEN Acc0
  ELSE AccStep(DecAcc(SubSeq(s, 1, Len(s) - 1)), DigitVal(s[Len(s)]))

\* the low 32 bits of acc read as an int32_t (two's complement)
ToInt32(acc) ==
  IF acc.hi >= TwoTo15 THEN (acc.hi - TwoTo16) * TwoTo16 + acc.lo
  ELSE acc.hi * TwoTo16 + acc.lo

\* -x in 32 bits
NegInt32(x) == IF x = IntMin THEN IntMin ELSE -x

\* what strtol(s, NULL, 10) reads: optional white space, an optional sign,
\* then digits up to the first other character
StrtolParts(s) ==
  LET t == SkipSpace(s)
      u == IF t # <<>> /\ Head(t) \in {"-", "+"} THEN Tail(t) ELSE t
  IN [neg |-> t # <<>> /\ Head(t) = "-", mag |-> DecAcc(DigitPrefix(u))]

\* the number read is one an int holds
FitsInt(p) ==
  /\ ~p.mag.big
  /\ \/ p.mag.hi < TwoTo15
     \/ p.neg /\ p.mag.hi = TwoTo15 /\ p.mag.lo = 0

\* atoi(): the set of results a build can produce.  A number an int holds is
\* returned as it is.  For any other number the behaviour is undefined: a
\* libc with a 64-bit long returns (int)strtol(), the low 32 bits of the
\* number (of up to 18 digits), and one with a 32-bit long the clamped value.
atoi(s) ==
  LET p == StrtolParts(s)
      low == IF p.neg THEN NegInt32(ToInt32(p.mag)) ELSE ToInt32(p.mag)
  IN IF FitsInt(p) THEN {low}
     ELSE {low, IF p.neg THEN IntMin ELSE IntMax}

(***************************************************************************)
(* utils.c: hex decoding and socket addresses.                             *)
(***************************************************************************)
\* hsk_hex_decode_size(str): the number of bytes str can hold
hsk_hex_decode_size(str) == Len(str) \div 2

\* hsk_hex_decode(str, data): ok is false for an odd length or a character
\* that is no hex digit; data holds the decoded bytes
hsk_hex_decode(str) ==
  LET ok == Len(str) % 2 = 0 /\ \A i \in 1..Len(str) : str[i] \in HexChars
  IN [ok |-> ok,
      data |-> IF ok
               THEN [i \in 1..(Len(str) \div 2) |->
                       16 * HexVal(str[2 * i - 1]) + HexVal(str[2 * i])]
               ELSE <<>>]

\* hosts inet_pton() accepts
ValidHosts == {"127.0.0.1", "10.0.0.2"}

\* index of the first "@" of s, 0 when there is none
RECURSIVE AtIndex(_, _)
AtIndex(s, i) ==
  IF i > Len(s) THEN 0 ELSE IF s[i] = "@" THEN i ELSE AtIndex(s, i + 1)

\* hsk_sa_from_string(addr, src, port): src is host or host@port; without
\* @port the caller's port is used.  ok is false for a host that does not
\* parse and for a port that is not a number in 1..65535.
hsk_sa_from_string(src, port) ==
  LET at == AtIndex(src, 1)
      host == IF at = 0 THEN src ELSE SubSeq(src, 1, at - 1)
      pstr == IF at = 0 THEN <<>> ELSE SubSeq(src, at + 1, Len(src))
      pok == at = 0
             \/ (/\ pstr # <<>>
                 /\ Len(pstr) <= 5
                 /\ \A i \in 1..Len(pstr) : pstr[i] \in Digits
                 /\ DecValue(pstr) \in 1..65535)
      hok == Len(host) = 1 /\ host[1] \in ValidHosts
  IN [ok |-> hok /\ pok,
      sa |-> IF hok /\ pok
             THEN [host |-> host[1],
                   port |-> IF at = 0 THEN port ELSE DecValue(pstr)]
             ELSE [host |-> "", port |-> 0]]

\* hsk_sa_copy(dst, src)
hsk_sa_copy(src) == src

(***************************************************************************)
(* The command lines explored.                                             *)
(***************************************************************************)
\* paths that fit the buffers _config and _rs_config, the first explored
\* as the argument of -c and the second as that of -u; a path that does
\* not fit is LongPath, given to the second of two runs under SpecPair
ConfigArg == <<"a">>
RsConfigArg == <<"b">>
PathArgs == {ConfigArg, RsConfigArg}
AddrArgs == {<<"10.0.0.2">>, <<"10.0.0.2", "@", "5", "3", "0", "0">>, <<"bad">>}
PoolArgs ==
  {<<"0">>, <<"1">>, <<"1", "0", "0", "0">>, <<"1", "0", "0", "1">>,
   <<"-", "1">>, <<"7", "x">>,
   <<"4", "2", "9", "4", "9", "6", "7", "2", "9", "7">>}
KeyArgs ==
  {Rep(<<"a", "b">>, KeySize),
   Rep(<<"a", "b">>, KeySize - 1),
   Rep(<<"a", "b">>, KeySize + 1),
   Rep(<<"a", "b">>, KeySize) \o <<"c">>,
   Rep(<<"a", "b">>, KeySize - 1) \o <<"0", "g">>}
SeedArgs == {<<"s">>}

\* the options of optstring / longopts that take an argument, with the
\* arguments explored for each
ArgsOf(o) ==
  CASE o = "c" -> {ConfigArg}
    [] o = "u" -> {RsConfigArg}
    [] o \in {"n", "r", "i"} -> AddrArgs
    [] o = "p" -> PoolArgs
    [] o = "k" -> KeyArgs
    [] o = "s" -> SeedArgs

Tokens ==
  {[o |-> o, arg |-> a] : o \in {"h", "?", "pos"}, a \in {<<>>}}
  \cup UNION {{[o |-> o, arg |-> a] : a \in ArgsOf(o)} :
                o \in {"c", "n", "r", "i", "u", "p", "k", "s"}}

Argvs == UNION {[1..n -> Tokens] : n \in 0..MaxArgs}

(***************************************************************************)
(* State.                                                                  *)
(***************************************************************************)
VARIABLES
  argv,     \* the command line after argv[0]
  optind,   \* getopt's cursor: index of the next element of argv to scan
  o,        \* parse_arg's local: what getopt_long returned last
  has_ip,   \* parse_arg's local: an -i option was seen
  opt,      \* hsk_options_t
  pc,       \* the statement about to run
  rc,       \* main's rc
  loop,     \* main's loop, pool, ns, rs: NULL or the handle
  pool,
  ns,
  rs,
  calls,    \* the calls made to the collaborators so far, in order
  usage,    \* help() printed the usage text
  status    \* the exit status, once pc = "exited"

vars == <<argv, optind, o, has_ip, opt, pc, rc, loop, pool, ns, rs, calls, usage, status>>

mainVars == <<rc, loop, pool, ns, rs, calls>>

argc == Len(argv) + 1

(***************************************************************************)
(* hsk_options_init, daemon.c:40-56.                                       *)
(***************************************************************************)
hsk_options_init ==
  [config |-> NULL,
   _config |-> <<>>,
   ns_host |-> hsk_sa_from_string(HSK_NS_IP, HSK_NS_PORT).sa,
   rs_host |-> hsk_sa_from_string(HSK_RS_IP, HSK_RS_PORT).sa,
   ns_ip |-> hsk_sa_from_string(HSK_RS_A, 0).sa,
   rs_config |-> NULL,
   _rs_config |-> <<>>,
   _identity_key |-> Rep(<<0>>, KeySize),
   identity_key |-> NULL,
   seeds |-> <<>>,
   pool_size |-> HSK_POOL_SIZE]

Init ==
  /\ argv \in Argvs
  /\ optind = 1
  /\ o = ""
  /\ has_ip = FALSE
  /\ opt = hsk_options_init
  /\ pc = "parse_arg"
  /\ rc = HSK_SUCCESS
  /\ loop = NULL
  /\ pool = NULL
  /\ ns = NULL
  /\ rs = NULL
  /\ calls = <<>>
  /\ usage = FALSE
  /\ status = 0

(***************************************************************************)
(* parse_arg, daemon.c:98-182.                                             *)
(***************************************************************************)
\* getopt_long scans argv from optind for the next option, passing over the
\* positional arguments (GNU getopt permutes them to the end); 0 when no
\* option is left, which is getopt_long returning -1
RECURSIVE NextOpt(_, _)
NextOpt(av, i) ==
  IF i > Len(av) THEN 0
  ELSE IF av[i].o # "pos" THEN i ELSE NextOpt(av, i + 1)

\* after the last option optind is the index of the first positional
\* argument of the permuted argv
OptindAtEnd(av) == 1 + Cardinality({i \in 1..Len(av) : av[i].o # "pos"})

\* help(r), daemon.c:58-96: print the usage text and exit(r)
help(r) ==
  /\ usage' = TRUE
  /\ status' = r
  /\ pc' = "exited"

\* o = getopt_long(...) returned option x with argument optarg, daemon.c:120
Getopt(x) ==
  /\ pc = "parse_arg"
  /\ NextOpt(argv, optind) # 0
  /\ argv[NextOpt(argv, optind)].o = x
  /\ o' = x
  /\ optind' = NextOpt(argv, optind) + 1

optarg == argv[NextOpt(argv, optind)].arg

\* fault variant: case 'h' leaves with status 1
OptHelpFails ==
  /\ Getopt("h")
  /\ help(1)
  /\ UNCHANGED <<argv, has_ip, opt, mainVars>>

\* case 'h', daemon.c:126-128
OptHelp ==
  /\ Getopt("h")
  /\ help(0)
  /\ UNCHANGED <<argv, has_ip, opt, mainVars>>

\* sizeof(opt->_config), sizeof(opt->_rs_config), daemon.c:25 and 33
ConfigSize == 256

\* strcpy(dst, src) stays inside a dst of ConfigSize bytes: src and its NUL fit
Fits(src) == Len(src) < ConfigSize

\* the signal of abort(), by which a strcpy that checks its destination
\* (_FORTIFY_SOURCE) ends the process; the status is 128 + SIGABRT
SIGABRT == 6

\* the address read through a sockaddr pointer after bytes of the pointer
\* were overwritten
Stray == [host |-> "stray", port |-> 0]

\* case 'c', daemon.c:129-132.  An optarg that does not fit is undefined
\* behaviour of strcpy: a checking strcpy aborts; otherwise the bytes past
\* _config land on the field that follows it in hsk_options_t, the pointer
\* ns_host (daemon.c:25-26).  For an optarg of exactly ConfigSize characters
\* that is the NUL alone, on one byte of the pointer: the pointer moves,
\* unless that byte was 0 already.
OptConfig ==
  /\ Getopt("c")
  /\ IF Fits(optarg)
     THEN /\ opt' = [opt EXCEPT !._config = optarg, !.config = "_config"]
          /\ UNCHANGED <<pc, usage, status>>
     ELSE \E checked \in BOOLEAN, moved \in BOOLEAN :
            IF checked
            THEN /\ status' = 128 + SIGABRT
                 /\ pc' = "exited"
                 /\ UNCHANGED <<opt, usage>>
            ELSE /\ opt' = [opt EXCEPT !._config = optarg,
                                       !.config = "_config",
                                       !.ns_host = IF moved THEN Stray ELSE @]
                 /\ UNCHANGED <<pc, usage, status>>
  /\ UNCHANGED <<argv, has_ip, mainVars>>

\* case 'n', daemon.c:133-136
OptNsHost ==
  /\ Getopt("n")
  /\ LET r == hsk_sa_from_string(optarg, HSK_NS_PORT)
     IN IF ~r.ok
        THEN help(1) /\ UNCHANGED opt
        ELSE opt' = [opt EXCEPT !.ns_host = r.sa] /\ UNCHANGED <<pc, usage, status>>
  /\ UNCHANGED <<argv, has_ip, mainVars>>

\* fault variant: case 'r' with the default port of case 'n'
OptRsHostNsPort ==
  /\ Getopt("r")
  /\ LET r == hsk_sa_from_string(optarg, HSK_NS_PORT)
     IN IF ~r.ok
        THEN help(1) /\ UNCHANGED opt
        ELSE opt' = [opt EXCEPT !.rs_host = r.sa] /\ UNCHANGED <<pc, usage, status>>
  /\ UNCHANGED <<argv, has_ip, mainVars>>

\* case 'r', daemon.c:137-140
OptRsHost ==
  /\ Getopt("r")
  /\ LET r == hsk_sa_from_string(optarg, HSK_RS_PORT)
     IN IF ~r.ok
        THEN help(1) /\ UNCHANGED opt
        ELSE opt' = [opt EXCEPT !.rs_host = r.sa] /\ UNCHANGED <<pc, usage, status>>
  /\ UNCHANGED <<argv, has_ip, mainVars>>

\* fault variant: case 'i' without has_ip = true
OptNsIpNoFlag ==
  /\ Getopt("i")
  /\ LET r == hsk_sa_from_string(optarg, 0)
     IN IF ~r.ok
        THEN help(1) /\ UNCHANGED <<opt, has_ip>>
        ELSE /\ opt' = [opt EXCEPT !.ns_ip = r.sa]
             /\ UNCHANGED <<has_ip, pc, usage, status>>
  /\ UNCHANGED <<argv, mainVars>>

\* case 'i', daemon.c:141-145
OptNsIp ==
  /\ Getopt("i")
  /\ LET r == hsk_sa_from_string(optarg, 0)
     IN IF ~r.ok
        THEN help(1) /\ UNCHANGED <<opt, has_ip>>
        ELSE /\ opt' = [opt EXCEPT !.ns_ip = r.sa]
             /\ has_ip' = TRUE
             /\ UNCHANGED <<pc, usage, status>>
  /\ UNCHANGED <<argv, mainVars>>

\* fault variant: -u sets the field of its own buffer
OptRsConfigOwnField ==
  /\ Getopt("u")
  /\ opt' = [opt EXCEPT !._rs_config = optarg, !.rs_config = "_rs_config"]
  /\ UNCHANGED <<argv, has_ip, pc, usage, status, mainVars>>

\* case 'u', daemon.c:146-149.  Past _rs_config lies _identity_key
\* (daemon.c:33-34): the NUL of an optarg of exactly ConfigSize characters
\* clears its first byte, unless strcpy checks and aborts.
OptRsConfig ==
  /\ Getopt("u")
  /\ IF Fits(optarg)
     THEN /\ opt' = [opt EXCEPT !._rs_config = optarg, !.config = "_rs_config"]
          /\ UNCHANGED <<pc, usage, status>>
     ELSE \E checked \in BOOLEAN :
            IF checked
            THEN /\ status' = 128 + SIGABRT
                 /\ pc' = "exited"
                 /\ UNCHANGED <<opt, usage>>
            ELSE /\ opt' = [opt EXCEPT !._rs_config = optarg,
                                       !.config = "_rs_config",
                                       !._identity_key = [@ EXCEPT ![1] = 0]]
                 /\ UNCHANGED <<pc, usage, status>>
  /\ UNCHANGED <<argv, has_ip, mainVars>>

\* the test of daemon.c:152
PoolSizeRejected(size) == size <= 0 \/ size > PoolSizeMax

\* case 'p', daemon.c:150-156
OptPoolSize ==
  /\ Getopt("p")
  /\ \E size \in atoi(optarg) :
       IF PoolSizeRejected(size)
       THEN help(1) /\ UNCHANGED opt
       ELSE opt' = [opt EXCEPT !.pool_size = size] /\ UNCHANGED <<pc, usage, status>>
  /\ UNCHANGED <<argv, has_ip, mainVars>>

\* fault variant: only the size is tested
KeyRejectedSizeOnly(str) == hsk_hex_decode_size(str) # KeySize

\* the two tests of daemon.c:158-161
KeyRejected(str) ==
  \/ hsk_hex_decode_size(str) # KeySize
  \/ ~hsk_hex_decode(str).ok

\* case 'k', daemon.c:157-163
OptIdentityKey ==
  /\ Getopt("k")
  /\ IF KeyRejected(optarg)
     THEN help(1) /\ UNCHANGED opt
     ELSE /\ opt' = [opt EXCEPT !._identity_key = hsk_hex_decode(optarg).data,
                                !.identity_key = "_identity_key"]
          /\ UNCHANGED <<pc, usage, status>>
  /\ UNCHANGED <<argv, has_ip, mainVars>>

\* case 's', daemon.c:164-170: strdup() returns the copy or NULL
OptSeeds ==
  /\ Getopt("s")
  /\ \E copied \in BOOLEAN :
       IF ~copied
       THEN /\ status' = 1
            /\ pc' = "exited"
            /\ UNCHANGED <<opt, usage>>
       ELSE opt' = [opt EXCEPT !.seeds = <<optarg>>] /\ UNCHANGED <<pc, usage, status>>
  /\ UNCHANGED <<argv, has_ip, mainVars>>

\* case '?', daemon.c:171-173
OptUnknown ==
  /\ Getopt("?")
  /\ help(1)
  /\ UNCHANGED <<argv, has_ip, opt, mainVars>>

\* getopt_long returned -1: daemon.c:122-123 and 177-182
ParseEnd ==
  /\ pc = "parse_arg"
  /\ NextOpt(argv, optind) = 0
  /\ o' = "-1"
  /\ optind' = OptindAtEnd(argv)
  /\ IF optind' < argc
     THEN help(1) /\ UNCHANGED opt
     ELSE /\ opt' = IF ~has_ip
                    THEN [opt EXCEPT !.ns_ip = hsk_sa_copy(opt.ns_host)]
                    ELSE opt
          /\ pc' = "uv_default_loop"
          /\ UNCHANGED <<usage, status>>
  /\ UNCHANGED <<argv, has_ip, mainVars>>

ParseArg ==
  \/ OptHelp
  \/ OptConfig
  \/ OptNsHost
  \/ OptRsHost
  \/ OptNsIp
  \/ OptRsConfig
  \/ OptPoolSize
  \/ OptIdentityKey
  \/ OptSeeds
  \/ OptUnknown
  \/ ParseEnd

(***************************************************************************)
(* main, daemon.c:188-288.                                                 *)
(***************************************************************************)
\* fault variant: the pool is destroyed before ns
ProgramOrderTeardownSwapped ==
  <<"uv_default_loop", "hsk_pool_alloc", "hsk_pool_set_size", "hsk_ns_alloc",
    "hsk_ns_set_ip", "hsk_ns_set_key", "hsk_rs_alloc", "hsk_rs_set_key",
    "hsk_pool_open", "hsk_ns_open", "hsk_rs_open", "uv_run",
    "hsk_rs_destroy", "hsk_pool_destroy", "hsk_ns_destroy", "uv_loop_close",
    "return">>

\* fault variant: ns is opened before the pool
ProgramOrderOpenSwapped ==
  <<"uv_default_loop", "hsk_pool_alloc", "hsk_pool_set_size", "hsk_ns_alloc",
    "hsk_ns_set_ip", "hsk_ns_set_key", "hsk_rs_alloc", "hsk_rs_set_key",
    "hsk_ns_open", "hsk_pool_open", "hsk_rs_open", "uv_run",
    "hsk_rs_destroy", "hsk_ns_destroy", "hsk_pool_destroy", "uv_loop_close",
    "return">>

\* fault variant: the key of rs is set after the pool is opened
ProgramOrderLateKey ==
  <<"uv_default_loop", "hsk_pool_alloc", "hsk_pool_set_size", "hsk_ns_alloc",
    "hsk_ns_set_ip", "hsk_ns_set_key", "hsk_rs_alloc",
    "hsk_pool_open", "hsk_rs_set_key", "hsk_ns_open", "hsk_rs_open", "uv_run",
    "hsk_rs_destroy", "hsk_ns_destroy", "hsk_pool_destroy", "uv_loop_close",
    "return">>

\* the statements of main after parse_arg, in the order of the text
ProgramOrder ==
  <<"uv_default_loop",      \* 201
    "hsk_pool_alloc",       \* 209
    "hsk_pool_set_size",    \* 217
    "hsk_ns_alloc",         \* 219
    "hsk_ns_set_ip",        \* 227
    "hsk_ns_set_key",       \* 229-230
    "hsk_rs_alloc",         \* 232
    "hsk_rs_set_key",       \* 240-241
    "hsk_pool_open",        \* 243
    "hsk_ns_open",          \* 250
    "hsk_rs_open",          \* 257
    "uv_run",               \* 266
    "hsk_rs_destroy",       \* 275-276
    "hsk_ns_destroy",       \* 278-279
    "hsk_pool_destroy",     \* 281-282
    "uv_loop_close",        \* 284-285
    "return">>              \* 287

\* the statement after statement p
Succ(p) ==
  LET i == CHOOSE k \in 1..Len(ProgramOrder) : ProgramOrder[k] = p
  IN ProgramOrder[i + 1]

\* the label done, daemon.c:274
done == "hsk_rs_destroy"

\* results the collaborators can return
Codes == (-MaxCode)..MaxCode

Call(op, arg, ret) == [op |-> op, arg |-> arg, ret |-> ret]

\* fault variant: a missing loop is reported as out of memory
LoopFailRcNomem == HSK_ENOMEM

\* loop = uv_default_loop(), daemon.c:201-207
LoopFailRc == HSK_EFAILURE

UvDefaultLoop ==
  /\ pc = "uv_default_loop"
  /\ \E l \in {NULL, "loop"} :
       /\ loop' = l
       /\ calls' = Append(calls, Call("uv_default_loop", <<>>, l))
       /\ IF l = NULL
          THEN rc' = LoopFailRc /\ pc' = done
          ELSE UNCHANGED rc /\ pc' = Succ(pc)
  /\ UNCHANGED <<argv, optind, o, has_ip, opt, pool, ns, rs, usage, status>>

\* pool = hsk_pool_alloc(loop), daemon.c:209-215
PoolAllocFailRc == HSK_ENOMEM

HskPoolAlloc ==
  /\ pc = "hsk_pool_alloc"
  /\ \E h \in {NULL, "pool"} :
       /\ pool' = h
       /\ calls' = Append(calls, Call("hsk_pool_alloc", <<loop>>, h))
       /\ IF h = NULL
          THEN rc' = PoolAllocFailRc /\ pc' = done
          ELSE UNCHANGED rc /\ pc' = Succ(pc)
  /\ UNCHANGED <<argv, optind, o, has_ip, opt, loop, ns, rs, usage, status>>

\* hsk_pool_set_size(pool, opt.pool_size), daemon.c:217
HskPoolSetSize ==
  /\ pc = "hsk_pool_set_size"
  /\ calls' = Append(calls, Call("hsk_pool_set_size", <<pool, opt.pool_size>>, 0))
  /\ pc' = Succ(pc)
  /\ UNCHANGED <<argv, optind, o, has_ip, opt, rc, loop, pool, ns, rs, usage, status>>

\* fault variant: a failed ns allocation is reported as a generic failure
NsAllocFailRcGeneric == HSK_EFAILURE

\* ns = hsk_ns_alloc(loop, pool), daemon.c:219-225
NsAllocFailRc == HSK_ENOMEM

HskNsAlloc ==
  /\ pc = "hsk_ns_alloc"
  /\ \E h \in {NULL, "ns"} :
       /\ ns' = h
       /\ calls' = Append(calls, Call("hsk_ns_alloc", <<loop, pool>>, h))
       /\ IF h = NULL
          THEN rc' = NsAllocFailRc /\ pc' = done
          ELSE UNCHANGED rc /\ pc' = Succ(pc)
  /\ UNCHANGED <<argv, optind, o, has_ip, opt, loop, pool, rs, usage, status>>

\* hsk_ns_set_ip(ns, opt.ns_ip), daemon.c:227
HskNsSetIp ==
  /\ pc = "hsk_ns_set_ip"
  /\ calls' = Append(calls, Call("hsk_ns_set_ip", <<ns, opt.ns_ip>>, 0))
  /\ pc' = Succ(pc)
  /\ UNCHANGED <<argv, optind, o, has_ip, opt, rc, loop, pool, ns, rs, usage, status>>

\* fault variant: the key is set without the test
HasKeyAlways(options) == TRUE

\* the test of daemon.c:229 and daemon.c:240
HasKey(options) == options.identity_key # NULL

\* if (opt.identity_key) hsk_ns_set_key(ns, opt.identity_key), daemon.c:229-230
HskNsSetKey ==
  /\ pc = "hsk_ns_set_key"
  /\ calls' = IF HasKey(opt)
              THEN Append(calls, Call("hsk_ns_set_key", <<ns, opt._identity_key>>, 0))
              ELSE calls
  /\ pc' = Succ(pc)
  /\ UNCHANGED <<argv, optind, o, has_ip, opt, rc, loop, pool, ns, rs, usage, status>>

\* fault variant: a failed rs allocation leaves rc as it was
RsAllocFailRcKept == HSK_SUCCESS

\* rs = hsk_rs_alloc(loop, opt.ns_host), daemon.c:232-238
RsAllocFailRc == HSK_ENOMEM

\* fault variant: rs is allocated with its own bind address
HskRsAllocRsHost ==
  /\ pc = "hsk_rs_alloc"
  /\ \E h \in {NULL, "rs"} :
       /\ rs' = h
       /\ calls' = Append(calls, Call("hsk_rs_alloc", <<loop, opt.rs_host>>, h))
       /\ IF h = NULL
          THEN rc' = RsAllocFailRc /\ pc' = done
          ELSE UNCHANGED rc /\ pc' = Succ(pc)
  /\ UNCHANGED <<argv, optind, o, has_ip, opt, loop, pool, ns, usage, status>>

HskRsAlloc ==
  /\ pc = "hsk_rs_alloc"
  /\ \E h \in {NULL, "rs"} :
       /\ rs' = h
       /\ calls' = Append(calls, Call("hsk_rs_alloc", <<loop, opt.ns_host>>, h))
       /\ IF h = NULL
          THEN rc' = RsAllocFailRc /\ pc' = done
          ELSE UNCHANGED rc /\ pc' = Succ(pc)
  /\ UNCHANGED <<argv, optind, o, has_ip, opt, loop, pool, ns, usage, status>>

\* if (opt.identity_key) hsk_rs_set_key(rs, opt.identity_key), daemon.c:240-241
HskRsSetKey ==
  /\ pc = "hsk_rs_set_key"
  /\ calls' = IF HasKey(opt)
              THEN Append(calls, Call("hsk_rs_set_key", <<rs, opt._identity_key>>, 0))
              ELSE calls
  /\ pc' = Succ(pc)
  /\ UNCHANGED <<argv, optind, o, has_ip, opt, rc, loop, pool, ns, rs, usage, status>>

\* rc after an open returned c, daemon.c:243, 250, 257
OpenRc(c) == c

\* fault variant: only a positive code counts as a failed open
OpenFailedPositive(c) == c > HSK_SUCCESS

\* fault variant: main goes on after an open that failed
OpenFailedNever(c) == FALSE

\* the tests of daemon.c:245, 252, 259
OpenFailed(c) == c # HSK_SUCCESS

\* rc = hsk_pool_open(pool), daemon.c:243-248
HskPoolOpen ==
  /\ pc = "hsk_pool_open"
  /\ \E c \in Codes :
       /\ calls' = Append(calls, Call("hsk_pool_open", <<pool>>, c))
       /\ rc' = OpenRc(c)
       /\ pc' = IF OpenFailed(rc') THEN done ELSE Succ(pc)
  /\ UNCHANGED <<argv, optind, o, has_ip, opt, loop, pool, ns, rs, usage, status>>

\* rc = hsk_ns_open(ns, opt.ns_host), daemon.c:250-255
HskNsOpen ==
  /\ pc = "hsk_ns_open"
  /\ \E c \in Codes :
       /\ calls' = Append(calls, Call("hsk_ns_open", <<ns, opt.ns_host>>, c))
       /\ rc' = OpenRc(c)
       /\ pc' = IF OpenFailed(rc') THEN done ELSE Succ(pc)
  /\ UNCHANGED <<argv, optind, o, has_ip, opt, loop, pool, ns, rs, usage, status>>

\* rc = hsk_rs_open(rs, opt.rs_host), daemon.c:257-262
HskRsOpen ==
  /\ pc = "hsk_rs_open"
  /\ \E c \in Codes :
       /\ calls' = Append(calls, Call("hsk_rs_open", <<rs, opt.rs_host>>, c))
       /\ rc' = OpenRc(c)
       /\ pc' = IF OpenFailed(rc') THEN done ELSE Succ(pc)
  /\ UNCHANGED <<argv, optind, o, has_ip, opt, loop, pool, ns, rs, usage, status>>

\* fault variant: the value uv_run returned is passed on
RunRcPassed(r) == r

\* rc after uv_run returned r, daemon.c:266-272
RunRc(r) == IF r # 0 THEN HSK_EFAILURE ELSE r

\* rc = uv_run(loop, UV_RUN_DEFAULT), daemon.c:264-272
UvRun ==
  /\ pc = "uv_run"
  /\ \E r \in Codes :
       /\ calls' = Append(calls, Call("uv_run", <<loop>>, r))
       /\ rc' = RunRc(r)
       /\ pc' = done
  /\ UNCHANGED <<argv, optind, o, has_ip, opt, loop, pool, ns, rs, usage, status>>

\* fault variant: the destroy is made without the test
AllocatedAlways(h) == TRUE

\* the tests if (rs), if (ns), if (pool), if (loop), daemon.c:275-284
Allocated(h) == h # NULL

\* if (rs) hsk_rs_destroy(rs), daemon.c:275-276
HskRsDestroy ==
  /\ pc = "hsk_rs_destroy"
  /\ calls' = IF Allocated(rs)
              THEN Append(calls, Call("hsk_rs_destroy", <<rs>>, 0))
              ELSE calls
  /\ pc' = Succ(pc)
  /\ UNCHANGED <<argv, optind, o, has_ip, opt, rc, loop, pool, ns, rs, usage, status>>

\* if (ns) hsk_ns_destroy(ns), daemon.c:278-279
HskNsDestroy ==
  /\ pc = "hsk_ns_destroy"
  /\ calls' = IF Allocated(ns)
              THEN Append(calls, Call("hsk_ns_destroy", <<ns>>, 0))
              ELSE calls
  /\ pc' = Succ(pc)
  /\ UNCHANGED <<argv, optind, o, has_ip, opt, rc, loop, pool, ns, rs, usage, status>>

\* if (pool) hsk_pool_destroy(pool), daemon.c:281-282
HskPoolDestroy ==
  /\ pc = "hsk_pool_destroy"
  /\ calls' = IF Allocated(pool)
              THEN Append(calls, Call("hsk_pool_destroy", <<pool>>, 0))
              ELSE calls
  /\ pc' = Succ(pc)
  /\ UNCHANGED <<argv, optind, o, has_ip, opt, rc, loop, pool, ns, rs, usage, status>>

\* if (loop) uv_loop_close(loop), daemon.c:284-285
UvLoopClose ==
  /\ pc = "uv_loop_close"
  /\ calls' = IF Allocated(loop)
              THEN Append(calls, Call("uv_loop_close", <<loop>>, 0))
              ELSE calls
  /\ pc' = Succ(pc)
  /\ UNCHANGED <<argv, optind, o, has_ip, opt, rc, loop, pool, ns, rs, usage, status>>

\* return rc, daemon.c:287
Return ==
  /\ pc = "return"
  /\ status' = rc
  /\ pc' = "exited"
  /\ UNCHANGED <<argv, optind, o, has_ip, opt, rc, loop, pool, ns, rs, calls, usage>>

Main ==
  \/ UvDefaultLoop
  \/ HskPoolAlloc
  \/ HskPoolSetSize
  \/ HskNsAlloc
  \/ HskNsSetIp
  \/ HskNsSetKey
  \/ HskRsAlloc
  \/ HskRsSetKey
  \/ HskPoolOpen
  \/ HskNsOpen
  \/ HskRsOpen
  \/ UvRun
  \/ HskRsDestroy
  \/ HskNsDestroy
  \/ HskPoolDestroy
  \/ UvLoopClose
  \/ Return

Next == ParseArg \/ Main

Spec == Init /\ [][Next]_vars

(***************************************************************************)
(* Two runs of the program, one after the other, on command lines that     *)
(* differ only in the arguments of -s, -c and -u.  The calls of the first  *)
(* run stay in the record; an "exec" entry, holding what the first run     *)
(* exited with, separates them from those of the second.                   *)
(***************************************************************************)
\* the shortest argument of -c or -u that does not fit its buffer
LongPath == [i \in 1..ConfigSize |-> "a"]

\* a second argument for -s
OtherSeeds == <<"t">>

\* exit(1) of daemon.c:168, and the -s it happened at
SeedsCopyFailedAt ==
  IF pc = "exited" /\ o = "s" /\ ~usage /\ status = 1 THEN optind ELSE 0

\* the tokens av[i] may be replaced by; the long path only as the last
\* element of the command line, so that no option is parsed after the
\* overflow
Alt(av, i) ==
  CASE av[i].o \in {"c", "u"} ->
         {[o |-> av[i].o, arg |-> a] :
            a \in PathArgs \cup (IF i = Len(av) THEN {LongPath} ELSE {})}
    [] av[i].o = "s" ->
         {[o |-> "s", arg |-> a] : a \in SeedArgs \cup {OtherSeeds}}
    [] OTHER -> {av[i]}

\* the command lines that differ from av at most in the arguments of -s, -c
\* and -u, from element i on
RECURSIVE VariantsFrom(_, _)
VariantsFrom(av, i) ==
  IF i > Len(av) THEN {<<>>}
  ELSE {<<t>> \o w : t \in Alt(av, i), w \in VariantsFrom(av, i + 1)}

\* the program is started again, daemon.c:189-199.  What atoi returns for
\* a number out of range is fixed by the build, the same in both runs:
\* command lines with such a number are not run twice.
Restart ==
  /\ pc = "exited"
  /\ \A i \in 1..Len(calls) : calls[i].op # "exec"
  /\ \A i \in 1..Len(argv) :
       argv[i].o = "p" => Cardinality(atoi(argv[i].arg)) = 1
  /\ \E av \in VariantsFrom(argv, 1) : av # argv /\ argv' = av
  /\ calls' = Append(calls, Call("exec", <<SeedsCopyFailedAt>>, status))
  /\ optind' = 1
  /\ o' = ""
  /\ has_ip' = FALSE
  /\ opt' = hsk_options_init
  /\ pc' = "parse_arg"
  /\ rc' = HSK_SUCCESS
  /\ loop' = NULL
  /\ pool' = NULL
  /\ ns' = NULL
  /\ rs' = NULL
  /\ usage' = FALSE
  /\ status' = 0

NextPair == Next \/ Restart

SpecPair == Init /\ [][NextPair]_vars

(***************************************************************************)
(* Reading the record of calls.                                            *)
(***************************************************************************)
AllocOps == {"uv_default_loop", "hsk_pool_alloc", "hsk_ns_alloc", "hsk_rs_alloc"}
ConfigOps == {"hsk_pool_set_size", "hsk_ns_set_ip", "hsk_ns_set_key", "hsk_rs_set_key"}
OpenOps == {"hsk_pool_open", "hsk_ns_open", "hsk_rs_open"}
DestroyOps == {"hsk_rs_destroy", "hsk_ns_destroy", "hsk_pool_destroy", "uv_loop_close"}

\* the calls made at most once: allocations, opens and the run of the loop
OnceOps == AllocOps \cup OpenOps \cup {"uv_run"}

\* the calls that come before the first open
SetupOps == ConfigOps \cup AllocOps

\* the names of the calls made, in order
Ops == [i \in 1..Len(calls) |-> calls[i].op]

IsDestroyOp(op) == op \in DestroyOps
IsLifecycleOp(op) == op \notin ConfigOps

\* the destroy and close calls made, in order
Teardown == SelectSeq(Ops, IsDestroyOp)

\* the positions of the calls of op
At(op) == {i \in 1..Len(calls) : calls[i].op = op}
Count(op) == Cardinality(At(op))

\* op was called and returned a handle / returned NULL
AllocOk(op) == \E i \in At(op) : calls[i].ret # NULL
AllocFailed(op) == \E i \in At(op) : calls[i].ret = NULL

\* op (an open, or uv_run) was called and returned c
Returned(op, c) == \E i \in At(op) : calls[i].ret = c

IsPrefix(s, t) == Len(s) <= Len(t) /\ SubSeq(t, 1, Len(s)) = s

\* the destroy and close calls owed to the allocations that succeeded
TeardownOwed ==
  (IF AllocOk("hsk_rs_alloc") THEN <<"hsk_rs_destroy">> ELSE <<>>)
  \o (IF AllocOk("hsk_ns_alloc") THEN <<"hsk_ns_destroy">> ELSE <<>>)
  \o (IF AllocOk("hsk_pool_alloc") THEN <<"hsk_pool_destroy">> ELSE <<>>)
  \o (IF AllocOk("uv_default_loop") THEN <<"uv_loop_close">> ELSE <<>>)

FullTeardown == <<"hsk_rs_destroy", "hsk_ns_destroy", "hsk_pool_destroy", "uv_loop_close">>

\* main returned
Returned_main == pc = "exited" /\ calls # <<>>

(***************************************************************************)
(* C1: once the event loop was acquired, main destroys on every exit path  *)
(* each subsystem handle whose allocation succeeded exactly once, rs then  *)
(* ns then pool, and closes the loop exactly once, after those destroys.   *)
(* While main runs, the destroys made so far are a prefix of that list.    *)
(***************************************************************************)
C1_TeardownReverseOrder ==
  AllocOk("uv_default_loop") =>
    /\ IsPrefix(Teardown, TeardownOwed)
    /\ pc = "exited" => Teardown = TeardownOwed

\* an exit where ns was allocated and rs was not, after an rs allocation failure
C1_Witness ==
  /\ pc = "exited"
  /\ AllocOk("hsk_ns_alloc")
  /\ AllocFailed("hsk_rs_alloc")
  /\ Teardown = <<"hsk_ns_destroy", "hsk_pool_destroy", "uv_loop_close">>

(***************************************************************************)
(* C2: when hsk_ns_alloc returns NULL, the pool is destroyed exactly once, *)
(* hsk_ns_destroy and hsk_rs_destroy are never called, and main returns    *)
(* HSK_ENOMEM.                                                             *)
(***************************************************************************)
C2_NsAllocFailure ==
  AllocFailed("hsk_ns_alloc") =>
    /\ Count("hsk_ns_destroy") = 0
    /\ Count("hsk_rs_destroy") = 0
    /\ Count("hsk_rs_alloc") = 0
    /\ Count("hsk_pool_destroy") <= 1
    /\ pc = "exited" => Count("hsk_pool_destroy") = 1 /\ status = HSK_ENOMEM

C2_Witness ==
  /\ pc = "exited"
  /\ AllocOk("hsk_pool_alloc")
  /\ AllocFailed("hsk_ns_alloc")
  /\ Count("hsk_pool_destroy") = 1

(***************************************************************************)
(* C3: when an open returns a code c other than 0, no later open and no    *)
(* uv_run is made, the teardown is rs, ns, pool, loop, each once, and main *)
(* returns c.                                                              *)
(***************************************************************************)
C3_OpenFailure ==
  \A i \in 1..Len(calls) :
    (calls[i].op \in OpenOps /\ calls[i].ret # 0) =>
      /\ \A j \in (i + 1)..Len(calls) : calls[j].op \in DestroyOps
      /\ IsPrefix(Teardown, FullTeardown)
      /\ pc = "exited" => Teardown = FullTeardown /\ status = calls[i].ret

\* hsk_rs_open failed with a negative code after the other two opened
C3_Witness ==
  /\ pc = "exited"
  /\ Returned("hsk_pool_open", 0)
  /\ Returned("hsk_ns_open", 0)
  /\ Returned("hsk_rs_open", -1)
  /\ status = -1

(***************************************************************************)
(* C4: when every allocation succeeds, every open returns 0 and uv_run     *)
(* returns 0, main has allocated pool, ns, rs once each in that order,     *)
(* opened them once each in that order, run the loop once, destroyed rs,   *)
(* ns, pool and closed the loop once each in that order, and returns 0.    *)
(***************************************************************************)
\* no call made so far reported a failure
NoFailure ==
  \A i \in 1..Len(calls) :
    /\ calls[i].op \in AllocOps => calls[i].ret # NULL
    /\ calls[i].op \in OpenOps \cup {"uv_run"} => calls[i].ret = 0

\* the calls made other than the configuration calls, in order
Lifecycle == SelectSeq(Ops, IsLifecycleOp)

SuccessLifecycle ==
  <<"uv_default_loop", "hsk_pool_alloc", "hsk_ns_alloc", "hsk_rs_alloc",
    "hsk_pool_open", "hsk_ns_open", "hsk_rs_open", "uv_run">> \o FullTeardown

C4_SuccessPath ==
  NoFailure =>
    /\ IsPrefix(Lifecycle, SuccessLifecycle)
    /\ Returned_main => Lifecycle = SuccessLifecycle /\ status = 0

C4_Witness ==
  /\ Returned_main
  /\ NoFailure
  /\ Count("uv_run") = 1
  /\ Count("uv_loop_close") = 1

(***************************************************************************)
(* C5: when uv_run returns a value other than 0, main destroys rs, ns,     *)
(* pool, closes the loop, and returns HSK_EFAILURE whatever the value was. *)
(***************************************************************************)
C5_LoopError ==
  (\E i \in At("uv_run") : calls[i].ret # 0) =>
    /\ IsPrefix(Teardown, FullTeardown)
    /\ pc = "exited" => Teardown = FullTeardown /\ status = HSK_EFAILURE

\* uv_run returned a value that is not HSK_EFAILURE itself
C5_Witness ==
  /\ pc = "exited"
  /\ Returned("uv_run", -1)
  /\ status = HSK_EFAILURE

(***************************************************************************)
(* C6: when uv_default_loop returns NULL, main returns HSK_EFAILURE and    *)
(* makes no other call: nothing is allocated, configured, opened, run,     *)
(* destroyed or closed.                                                    *)
(***************************************************************************)
C6_LoopAcquireFailure ==
  AllocFailed("uv_default_loop") =>
    /\ Len(calls) = 1
    /\ pool = NULL /\ ns = NULL /\ rs = NULL
    /\ pc = "exited" => status = HSK_EFAILURE /\ ~usage

C6_Witness ==
  /\ pc = "exited"
  /\ AllocFailed("uv_default_loop")
  /\ status = HSK_EFAILURE

(***************************************************************************)
(* C7: a destroy or close is never called on a slot whose allocation did   *)
(* not succeed: every such call follows a successful allocation of its     *)
(* slot, and a slot that is NULL when main returns was never destroyed.    *)
(***************************************************************************)
AllocOf(op) ==
  CASE op = "hsk_rs_destroy" -> "hsk_rs_alloc"
    [] op = "hsk_ns_destroy" -> "hsk_ns_alloc"
    [] op = "hsk_pool_destroy" -> "hsk_pool_alloc"
    [] op = "uv_loop_close" -> "uv_default_loop"

SlotOf(op) ==
  CASE op = "hsk_rs_destroy" -> rs
    [] op = "hsk_ns_destroy" -> ns
    [] op = "hsk_pool_destroy" -> pool
    [] op = "uv_loop_close" -> loop

C7_NoDestroyOfUnallocated ==
  /\ \A i \in 1..Len(calls) :
       calls[i].op \in DestroyOps =>
         /\ \E j \in 1..(i - 1) :
              calls[j].op = AllocOf(calls[i].op) /\ calls[j].ret # NULL
         /\ calls[i].arg = <<SlotOf(calls[i].op)>>
         /\ calls[i].arg # <<NULL>>
  /\ \A op \in DestroyOps : SlotOf(op) = NULL => Count(op) = 0

\* main returned with the loop and the pool allocated, ns and rs never
\* allocated, and the teardown passed over the two empty slots
C7_Witness ==
  /\ pc = "exited"
  /\ loop # NULL /\ pool # NULL /\ ns = NULL /\ rs = NULL
  /\ Teardown = <<"hsk_pool_destroy", "uv_loop_close">>

(***************************************************************************)
(* C8: allocation is in the order pool, ns, rs and opening in the order    *)
(* pool, ns, rs; an open is made only after all three allocations          *)
(* succeeded and after every configuration call; no subsystem is opened    *)
(* before one that precedes it.                                            *)
(***************************************************************************)
\* every call of op1 precedes every call of op2, and op2 is not called
\* unless op1 was
Before(op1, op2) ==
  \A j \in 1..Len(calls) :
    calls[j].op = op2 =>
      /\ \E i \in 1..(j - 1) : calls[i].op = op1
      /\ \A i \in j..Len(calls) : calls[i].op # op1

C8_StartupOrder ==
  /\ Before("hsk_pool_alloc", "hsk_ns_alloc")
  /\ Before("hsk_ns_alloc", "hsk_rs_alloc")
  /\ Before("hsk_pool_open", "hsk_ns_open")
  /\ Before("hsk_ns_open", "hsk_rs_open")
  /\ \A op \in OnceOps \ {"uv_run"} : Count(op) <= 1
  /\ \A i \in 1..Len(calls) :
       calls[i].op \in OpenOps =>
         /\ \A a \in AllocOps : \E j \in 1..(i - 1) :
              calls[j].op = a /\ calls[j].ret # NULL
         /\ \E j \in 1..(i - 1) :
              /\ calls[j].op = "hsk_pool_set_size"
              /\ calls[j].arg = <<"pool", opt.pool_size>>
         /\ \E j \in 1..(i - 1) :
              /\ calls[j].op = "hsk_ns_set_ip"
              /\ calls[j].arg = <<"ns", opt.ns_ip>>
         /\ HasKey(opt) =>
              /\ \E j \in 1..(i - 1) : calls[j].op = "hsk_ns_set_key"
              /\ \E j \in 1..(i - 1) : calls[j].op = "hsk_rs_set_key"
         /\ \A j \in (i + 1)..Len(calls) : calls[j].op \notin SetupOps

\* all three were opened, with an identity key configured
C8_Witness ==
  /\ Count("hsk_rs_open") = 1
  /\ Count("hsk_ns_set_key") = 1
  /\ Count("hsk_rs_set_key") = 1

(***************************************************************************)
(* Reading the option parse_arg has just handled: while o is an option     *)
(* letter, the option is argv[optind - 1], and parse_arg either went on    *)
(* (the argument was accepted) or left through help(1).                    *)
(***************************************************************************)
LastArg == argv[optind - 1].arg
Accepted == pc # "exited"
UsageError == pc = "exited" /\ usage /\ status = 1

\* s without its leading zeros
RECURSIVE StripZeros(_)
StripZeros(s) ==
  IF s # <<>> /\ Head(s) = "0" THEN StripZeros(Tail(s)) ELSE s

\* s is a decimal integer: digits, after an optional sign
IsInteger(s) ==
  LET u == IF s # <<>> /\ Head(s) \in {"-", "+"} THEN Tail(s) ELSE s
  IN u # <<>> /\ \A i \in 1..Len(u) : u[i] \in Digits

\* the decimal integer s lies in 1..1000
InPoolRange(s) ==
  LET u == StripZeros(IF s # <<>> /\ Head(s) = "+" THEN Tail(s) ELSE s)
  IN /\ IsInteger(s)
     /\ Head(s) # "-"
     /\ u # <<>>
     /\ Len(u) <= 4
     /\ DecValue(u) \in 1..PoolSizeMax

(***************************************************************************)
(* C9: for a pool size s given with -p, the option is accepted, and        *)
(* pool_size becomes s, exactly if 1 <= s <= 1000; otherwise parse_arg     *)
(* leaves through help(1).                                                 *)
(***************************************************************************)
C9_PoolSizeAcceptedIffInRange ==
  (o = "p" /\ IsInteger(LastArg)) =>
    /\ Accepted <=> InPoolRange(LastArg)
    /\ Accepted => opt.pool_size = DecValue(StripZeros(LastArg))
    /\ ~Accepted => UsageError

\* the size handed to hsk_pool_set_size is the default or lies in 1..1000
PoolSizeInRange ==
  /\ opt.pool_size = HSK_POOL_SIZE \/ opt.pool_size \in 1..PoolSizeMax
  /\ \A i \in At("hsk_pool_set_size") :
       calls[i].arg[2] = HSK_POOL_SIZE \/ calls[i].arg[2] \in 1..PoolSizeMax

(***************************************************************************)
(* C10: an identity key given with -k is accepted, and identity_key set,  *)
(* exactly if the string decodes to 32 bytes, that is if it is 64 hex      *)
(* digits; otherwise parse_arg leaves through help(1); with no -k on the   *)
(* command line identity_key stays NULL.                                   *)
(***************************************************************************)
DecodesToKey(s) == Len(s) = 2 * KeySize /\ \A i \in 1..Len(s) : s[i] \in HexChars

C10_IdentityKeyAcceptedIffKeySize ==
  /\ o = "k" =>
       /\ Accepted <=> DecodesToKey(LastArg)
       /\ Accepted =>
            /\ opt.identity_key = "_identity_key"
            /\ Len(opt._identity_key) = KeySize
            /\ \A i \in 1..KeySize :
                 opt._identity_key[i] =
                   16 * HexVal(LastArg[2 * i - 1]) + HexVal(LastArg[2 * i])
       /\ ~Accepted => UsageError
  /\ (\A i \in 1..Len(argv) : argv[i].o # "k") => opt.identity_key = NULL
  /\ opt.identity_key # NULL => Len(opt._identity_key) = KeySize

\* a key of 64 hex digits was accepted
C10_Witness ==
  /\ o = "k"
  /\ Accepted
  /\ Len(LastArg) = 2 * KeySize
  /\ opt.identity_key # NULL

(***************************************************************************)
(* Reading the command line once parse_arg has returned.                   *)
(***************************************************************************)
\* parse_arg returned to main
Parsed == o = "-1" /\ ~usage

\* the positions of option x on the command line
Given(x) == {i \in 1..Len(argv) : argv[i].o = x}

\* the argument of the last x on the command line
LastOf(x) == argv[CHOOSE i \in Given(x) : \A j \in Given(x) : j <= i].arg

(***************************************************************************)
(* C11: once parse_arg has returned, ns_ip equals ns_host, host and port,  *)
(* if no -i was given, wherever the -n options stood; if -i was given,     *)
(* ns_ip is the address parsed from the last -i, whatever -n was given     *)
(* and wherever.                                                           *)
(***************************************************************************)
C11_PublicIp ==
  Parsed =>
    /\ Given("i") = {} =>
         /\ opt.ns_ip = opt.ns_host
         /\ opt.ns_host = IF Given("n") = {}
                          THEN hsk_sa_from_string(HSK_NS_IP, HSK_NS_PORT).sa
                          ELSE hsk_sa_from_string(LastOf("n"), HSK_NS_PORT).sa
    /\ Given("i") # {} => opt.ns_ip = hsk_sa_from_string(LastOf("i"), 0).sa

\* -i before -n, with different addresses: ns_ip is that of -i
C11_Witness ==
  /\ Parsed
  /\ Len(argv) = 2
  /\ argv[1].o = "i"
  /\ argv[2].o = "n"
  /\ opt.ns_ip # opt.ns_host
  /\ opt.ns_ip = [host |-> "10.0.0.2", port |-> 0]

(***************************************************************************)
(* What the usage text of daemon.c:67-92 and the checks of parse_arg ask   *)
(* of one option, read off the option itself.                              *)
(***************************************************************************)
\* the option is known and its argument is valid
TokenValid(t) ==
  CASE t.o \in {"c", "u", "s"} -> TRUE
    [] t.o = "n" -> hsk_sa_from_string(t.arg, HSK_NS_PORT).ok
    [] t.o = "r" -> hsk_sa_from_string(t.arg, HSK_RS_PORT).ok
    [] t.o = "i" -> hsk_sa_from_string(t.arg, 0).ok
    [] t.o = "p" -> InPoolRange(t.arg)
    [] t.o = "k" -> DecodesToKey(t.arg)
    [] OTHER -> FALSE

\* the position of the first -h on the command line
FirstHelp == CHOOSE i \in Given("h") : \A j \in Given("h") : i <= j

\* the process ended in case 's', strdup having returned NULL
SeedsCopyFailed == pc = "exited" /\ o = "s" /\ ~usage /\ status = 1

TokenInvalid(t) ==
  CASE t.o \in {"?", "pos"} -> TRUE
    [] t.o = "n" -> ~hsk_sa_from_string(t.arg, HSK_NS_PORT).ok
    [] t.o = "r" -> ~hsk_sa_from_string(t.arg, HSK_RS_PORT).ok
    [] t.o = "i" -> ~hsk_sa_from_string(t.arg, 0).ok
    [] t.o = "p" -> IsInteger(t.arg) /\ ~InPoolRange(t.arg)
    [] t.o = "k" -> ~DecodesToKey(t.arg)
    [] OTHER -> FALSE

C13_InvalidInputNeverReachesMain ==
  (Given("h") = {} /\ \E i \in 1..Len(argv) : TokenInvalid(argv[i])) =>
    /\ pc \in {"parse_arg", "exited"}
    /\ calls = <<>>
    /\ pc = "exited" => status = 1 /\ (usage \/ SeedsCopyFailed)

(***************************************************************************)
(* C14: for -n, -r and -i an argument host@port gives that host and that   *)
(* port, and an argument without @port gives that host with the port of    *)
(* the option: HSK_NS_PORT for -n, HSK_RS_PORT for -r, 0 for -i; a host    *)
(* that does not parse is a usage error.  With no -n the address ns_host   *)
(* stays HSK_NS_IP, HSK_NS_PORT and with no -r the address rs_host stays   *)
(* HSK_RS_IP, HSK_RS_PORT.                                                 *)
(***************************************************************************)
\* the argument read as host, or host "@" port
HostPart(a) == a[1]
HasPortPart(a) == Len(a) >= 2 /\ a[2] = "@"
PortPart(a) == DecValue(SubSeq(a, 3, Len(a)))

DefaultPortOf(x) ==
  CASE x = "n" -> HSK_NS_PORT [] x = "r" -> HSK_RS_PORT [] x = "i" -> 0

FieldOf(x) ==
  CASE x = "n" -> opt.ns_host [] x = "r" -> opt.rs_host [] x = "i" -> opt.ns_ip

C14_AddressParsing ==
  /\ o \in {"n", "r", "i"} =>
       /\ Accepted <=> HostPart(LastArg) \in ValidHosts
       /\ Accepted =>
            /\ FieldOf(o).host = HostPart(LastArg)
            /\ FieldOf(o).port = IF HasPortPart(LastArg)
                                 THEN PortPart(LastArg)
                                 ELSE DefaultPortOf(o)
       /\ ~Accepted => UsageError
  /\ Given("n") = {} => opt.ns_host = [host |-> HSK_NS_IP[1], port |-> HSK_NS_PORT]
  /\ Given("r") = {} => opt.rs_host = [host |-> HSK_RS_IP[1], port |-> HSK_RS_PORT]

\* -r with a host and no port was accepted and got the port of the
\* recursive server
C14_Witness ==
  /\ o = "r"
  /\ Accepted
  /\ ~HasPortPart(LastArg)
  /\ opt.rs_host = [host |-> "10.0.0.2", port |-> HSK_RS_PORT]

(***************************************************************************)
(* C15: rs is allocated with ns_host, the bind address of ns, not with     *)
(* rs_host; ns is opened on ns_host and rs on rs_host; the address rs was  *)
(* allocated with is the address ns is opened on.                          *)
(***************************************************************************)
\* the bind addresses the command line asks for
NsBindAddress ==
  IF Given("n") = {} THEN hsk_sa_from_string(HSK_NS_IP, HSK_NS_PORT).sa
  ELSE hsk_sa_from_string(LastOf("n"), HSK_NS_PORT).sa

RsBindAddress ==
  IF Given("r") = {} THEN hsk_sa_from_string(HSK_RS_IP, HSK_RS_PORT).sa
  ELSE hsk_sa_from_string(LastOf("r"), HSK_RS_PORT).sa

C15_BindAddresses ==
  /\ \A i \in At("hsk_rs_alloc") : calls[i].arg = <<"loop", NsBindAddress>>
  /\ \A i \in At("hsk_ns_open") : calls[i].arg = <<"ns", NsBindAddress>>
  /\ \A i \in At("hsk_rs_open") : calls[i].arg = <<"rs", RsBindAddress>>
  /\ \A i \in At("hsk_rs_alloc"), j \in At("hsk_ns_open") :
       calls[i].arg[2] = calls[j].arg[2]

\* all three calls were made with -n given, on addresses that differ
C15_Witness ==
  /\ Count("hsk_rs_open") = 1
  /\ Given("n") # {}
  /\ NsBindAddress # RsBindAddress
  /\ \E i \in At("hsk_rs_alloc") : calls[i].arg[2] = NsBindAddress

(***************************************************************************)
(* C16: if an identity key was given, the same 32 bytes are set on ns      *)
(* after its allocation and on rs after its allocation, both before any    *)
(* open; if none was given, neither set-key call is made.  Once both       *)
(* servers are allocated the key is set on one exactly if it is set on the *)
(* other.                                                                  *)
(***************************************************************************)
\* the bytes a string of 2 * KeySize hex digits denotes
BytesOf(str) ==
  [i \in 1..KeySize |-> 16 * HexVal(str[2 * i - 1]) + HexVal(str[2 * i])]

\* the same for each such argument of -k explored
KeyBytes ==
  [str \in {k \in KeyArgs :
              Len(k) = 2 * KeySize /\ \A i \in 1..Len(k) : k[i] \in HexChars} |->
     BytesOf(str)]

\* the bytes the last -k denotes
KeyGiven == KeyBytes[LastOf("k")]

\* op was called, once, with handle h and the key given, after the
\* allocation alloc succeeded and before any open
KeySetOn(op, h, alloc) ==
  \A i \in At(op) :
    /\ \A j \in At(op) : j = i
    /\ calls[i].arg = <<h, KeyGiven>>
    /\ \E j \in 1..(i - 1) : calls[j].op = alloc /\ calls[j].ret = h
    /\ \A j \in 1..(i - 1) : calls[j].op \notin OpenOps

C16_IdentityKeyOnBoth ==
  LET nsSet == At("hsk_ns_set_key") # {}
      rsSet == At("hsk_rs_set_key") # {}
  IN /\ Given("k") = {} => ~nsSet /\ ~rsSet
     /\ KeySetOn("hsk_ns_set_key", "ns", "hsk_ns_alloc")
     /\ KeySetOn("hsk_rs_set_key", "rs", "hsk_rs_alloc")
     /\ (Given("k") # {} /\ AllocOk("hsk_ns_alloc")
           /\ pc \notin {"hsk_ns_set_ip", "hsk_ns_set_key"}) => nsSet
     /\ (AllocOk("hsk_rs_alloc") /\ pc # "hsk_rs_set_key") =>
          /\ nsSet <=> rsSet
          /\ Given("k") # {} => rsSet

\* the key was set on both servers and the pool was opened after that
C16_Witness ==
  /\ Count("hsk_ns_set_key") = 1
  /\ Count("hsk_rs_set_key") = 1
  /\ Count("hsk_pool_open") = 1

(***************************************************************************)
(* C17: -c and -u both set the one active config path: at every point of   *)
(* parsing and after it, the path opt.config leads to is the argument of   *)
(* the last -c or -u handled so far, NULL if none was; opt.rs_config is    *)
(* never set.                                                              *)
(***************************************************************************)
\* the string opt.config points to
configPath ==
  CASE opt.config = NULL -> NULL
    [] opt.config = "_config" -> opt._config
    [] opt.config = "_rs_config" -> opt._rs_config

\* the positions of the -c and -u options getopt_long has returned so far
ConfigFlagsHandled ==
  {i \in Given("c") \cup Given("u") : o = "-1" \/ i < optind}

C17_ConfigPathLastWins ==
  /\ opt.rs_config = NULL
  /\ IF ConfigFlagsHandled = {}
     THEN opt.config = NULL
     ELSE LET last == CHOOSE i \in ConfigFlagsHandled :
                        \A j \in ConfigFlagsHandled : j <= i
          IN /\ opt.config # NULL
             /\ configPath = argv[last].arg

\* parse_arg returned after a -c and a -u with different arguments, and the
\* path is that of the second
C17_Witness ==
  /\ Parsed
  /\ \E i \in Given("c"), j \in Given("u") :
       /\ argv[i].arg # argv[j].arg
       /\ configPath = argv[IF i < j THEN j ELSE i].arg
       /\ configPath # argv[IF i < j THEN i ELSE j].arg

(***************************************************************************)
(* C18: main goes forward only.  Each allocation, each open and uv_run is  *)
(* called at most once; a handle is NULL until its allocation was called   *)
(* and from then on is what that one call returned; and after a call that  *)
(* failed (an allocation returning NULL, an open or uv_run returning       *)
(* nonzero) only destroy and close calls follow.                           *)
(***************************************************************************)
\* the call c failed
Failed(c) ==
  IF c.op \in AllocOps THEN c.ret = NULL
  ELSE IF c.op \in OnceOps THEN c.ret # 0
  ELSE FALSE

\* what the first call of the allocation op returned, NULL before it
RECURSIVE HandleFrom(_, _)
HandleFrom(op, i) ==
  IF i > Len(calls) THEN NULL
  ELSE IF calls[i].op = op THEN calls[i].ret ELSE HandleFrom(op, i + 1)

HandleOf(op) == HandleFrom(op, 1)

C18_LinearNoRetry ==
  /\ \A i \in 1..Len(calls) :
       /\ calls[i].op \in OnceOps =>
            \A j \in (i + 1)..Len(calls) : calls[j].op # calls[i].op
       /\ Failed(calls[i]) =>
            \A j \in (i + 1)..Len(calls) : calls[j].op \in DestroyOps
  /\ loop = HandleOf("uv_default_loop")
  /\ pool = HandleOf("hsk_pool_alloc")
  /\ ns = HandleOf("hsk_ns_alloc")
  /\ rs = HandleOf("hsk_rs_alloc")

\* main returned after hsk_ns_open failed, and made calls after that failure
C18_Witness ==
  /\ pc = "exited"
  /\ \E i \in At("hsk_ns_open") : calls[i].ret # 0 /\ i < Len(calls)
  /\ ns # NULL

(***************************************************************************)
(* C19: the value main returns is 0 exactly if the loop was acquired, the  *)
(* three allocations succeeded, the three opens returned 0 and uv_run was  *)
(* called and returned 0; whenever a loop acquisition, an allocation, an   *)
(* open or uv_run failed, it is not 0.                                     *)
(***************************************************************************)
AllSucceeded ==
  /\ \A op \in AllocOps : AllocOk(op)
  /\ \A op \in OpenOps \cup {"uv_run"} : Returned(op, 0)

C19_ExitZeroIffAllSucceeded ==
  Returned_main =>
    /\ status = HSK_SUCCESS <=> AllSucceeded
    /\ (\E i \in 1..Len(calls) : Failed(calls[i])) => status # HSK_SUCCESS

\* main returned after the rs allocation failed
C19_Witness ==
  /\ Returned_main
  /\ AllocFailed("hsk_rs_alloc")
  /\ status # HSK_SUCCESS

(***************************************************************************)
(* C20: the arguments of -s, -c and -u reach no collaborator.  Of two runs *)
(* on command lines that differ only in those arguments, in which strdup   *)
(* failed at the same -s or at none: as long as the collaborators returned *)
(* the same to both, the second run makes the call the first made, with    *)
(* the same arguments; and when they returned the same throughout, both    *)
(* runs made the same number of calls and exited with the same status.     *)
(***************************************************************************)
SecondRun == \E i \in 1..Len(calls) : calls[i].op = "exec"

ExecAt == CHOOSE i \in 1..Len(calls) : calls[i].op = "exec"

Run1 == SubSeq(calls, 1, ExecAt - 1)
Run2 == SubSeq(calls, ExecAt + 1, Len(calls))

\* the first k calls of the two runs were the same calls and returned the same
SameUpTo(k) ==
  \A j \in 1..k :
    (j <= Len(Run1) /\ j <= Len(Run2)) =>
      Run1[j].op = Run2[j].op /\ Run1[j].ret = Run2[j].ret

C20_ValuesReachNoCollaborator ==
  (SecondRun /\ calls[ExecAt].arg[1] = SeedsCopyFailedAt) =>
    /\ \A k \in 1..Len(Run2) :
         SameUpTo(k - 1) =>
           /\ k <= Len(Run1)
           /\ Run2[k].op = Run1[k].op
           /\ Run2[k].arg = Run1[k].arg
    /\ (pc = "exited" /\ SameUpTo(Len(Run2))) =>
         /\ Len(Run2) = Len(Run1)
         /\ status = calls[ExecAt].ret

====
